---- MODULE Spec2Model ----
(***************************************************************************)
(* TechnicalAnalyzer of src/src/strategies/indicators.py: a price table    *)
(* (pandas DataFrame) sorted by ticker and date, per-ticker rolling        *)
(* indicators added as columns, and the RSI reversal signal filter.        *)
(*                                                                         *)
(* Numbers.  Floating point values are modelled as exact rationals in      *)
(* lowest terms, with the two IEEE specials the code meets: NaN and an     *)
(* infinity (the sign of an infinity is not kept: the code replaces both   *)
(* signs alike).  A value may carry a square-root part, which only the     *)
(* Bollinger bands use:  value = n/d + sign(rn) * sqrt(|rn| / rd).         *)
(* Rounding of binary floating point is not modelled.                      *)
(***************************************************************************)
EXTENDS Integers, Sequences, FiniteSets, TLC

(***************************************************************************)
(* Bounds of the model.                                                    *)
(***************************************************************************)
MaxRows == 3        \* rows of an unordered input table
MaxLen == 3         \* points of one ticker's series in a loader-shaped input
MaxWindow == 2      \* largest window the short harnesses pass
MaxCalls == 3       \* indicator calls in one run of a chained harness
ExtraLen == 2       \* points past RSI_WINDOW in a long series
PatLen == 2         \* length of the step pattern a long series repeats
MaxSessions == 2    \* save_analysis calls that may run at the same time
MaxSaves == 3       \* save_analysis calls in one run
MaxDay == 2         \* calendar days the clock runs through

\* The tickers, listed in the (lexicographic) order sort_values puts them in.
Tickers == <<"AAPL", "TSLA">>
Closes == {1, 2, 4}      \* closes of a loader-shaped input
Dates == {1, 2}          \* dates and closes of an unordered input
UnorderedCloses == {1, 2}
NumStds == {1, 2}
Steps == {-1, 0, 1}      \* day-over-day moves of a long series

(***************************************************************************)
(* Program constants.                                                      *)
(***************************************************************************)
RSI_WINDOW == 14            \* the window of rsi_14
DEFAULT_THRESHOLD == 30     \* apply_strategy_rsi_reversal's default
MAIN_THRESHOLD == 70        \* the threshold main() passes

\* The thresholds the signal harness passes.
Thresholds == {0, DEFAULT_THRESHOLD, 50, MAIN_THRESHOLD}

(***************************************************************************)
(* Floating point values.                                                  *)
(***************************************************************************)
Abs(x) == IF x < 0 THEN -x ELSE x

RECURSIVE GCD(_, _)
GCD(a, b) == IF b = 0 THEN a ELSE GCD(b, a % b)

NaN == [k |-> "nan", n |-> 0, d |-> 1, rn |-> 0, rd |-> 1]
Inf == [k |-> "inf", n |-> 0, d |-> 1, rn |-> 0, rd |-> 1]

\* n/d in lowest terms with a positive denominator (d # 0).
Rat(n, d) ==
    LET s == IF d < 0 THEN -1 ELSE 1
        g == GCD(Abs(n), Abs(d))
    IN  [k |-> "num", n |-> (s * n) \div g, d |-> (s * d) \div g,
         rn |-> 0, rd |-> 1]

Num(x) == Rat(x, 1)

\* a + b.  At most one operand carries a square-root part in this program.
FAdd(a, b) ==
    IF a.k = "nan" \/ b.k = "nan" THEN NaN
    ELSE IF a.k = "inf" \/ b.k = "inf" THEN Inf
    ELSE LET q == Rat(a.n * b.d + b.n * a.d, a.d * b.d)
             r == IF a.rn # 0 THEN a ELSE b
         IN  [q EXCEPT !.rn = r.rn, !.rd = r.rd]

FNeg(a) == IF a.k = "num" THEN [Rat(-a.n, a.d) EXCEPT !.rn = -a.rn, !.rd = a.rd]
           ELSE a

FSub(a, b) == FAdd(a, FNeg(b))

\* a / b for values without a square-root part: x/0 is an infinity, 0/0 is NaN.
FDiv(a, b) ==
    IF a.k = "nan" \/ b.k = "nan" THEN NaN
    ELSE IF b.k = "inf" THEN (IF a.k = "inf" THEN NaN ELSE Num(0))
    ELSE IF a.k = "inf" THEN Inf
    ELSE IF b.n = 0 THEN (IF a.n = 0 THEN NaN ELSE Inf)
    ELSE Rat(a.n * b.d, a.d * b.n)

\* a * c for an integer c; the square-root part scales by c^2 and takes c's sign.
FScale(a, c) ==
    IF a.k # "num" THEN a
    ELSE LET q == Rat(a.n * c, a.d)
             g == GCD(Abs(a.rn) * c * c, a.rd)
             s == IF c < 0 THEN -1 ELSE 1
         IN  IF a.rn = 0 \/ c = 0 THEN q
             ELSE [q EXCEPT !.rn = (s * a.rn * c * c) \div g, !.rd = a.rd \div g]

\* Comparisons of a value without square-root part; any comparison with NaN is false.
FLt(a, b) == a.k = "num" /\ b.k = "num" /\ a.n * b.d < b.n * a.d
FGt(a, b) == FLt(b, a)

\* sqrt(a) for a rational a >= 0, kept symbolic.
FSqrt(a) ==
    IF a.k # "num" THEN a
    ELSE IF a.n = 0 THEN Num(0)
    ELSE [Num(0) EXCEPT !.rn = a.n, !.rd = a.d]

(***************************************************************************)
(* Series (pandas.Series): sequences of values.                            *)
(***************************************************************************)
Range(s) == {s[i] : i \in DOMAIN s}

\* The function f on 1..n as a sequence whose elements are computed once.
AsSeries(f) == f \o <<>>

RECURSIVE SumSeq(_)
SumSeq(s) == IF s = <<>> THEN Num(0) ELSE FAdd(s[1], SumSeq(Tail(s)))

Mean(s) == FDiv(SumSeq(s), Num(Len(s)))

\* Sample variance (ddof = 1): sum((x - mean)^2) / (n - 1); NaN for one point.
RECURSIVE SumSqDev(_, _)
SumSqDev(s, m) ==
    IF s = <<>> THEN Num(0)
    ELSE LET e == FSub(s[1], m)
         IN  FAdd(Rat(e.n * e.n, e.d * e.d), SumSqDev(Tail(s), m))

Std(s) ==
    LET m == Mean(s)
    IN  FSqrt(FDiv(SumSqDev(s, m), Num(Len(s) - 1)))

\* Series.diff(): the first element has no predecessor and is NaN.
Diff(s) ==
    AsSeries([i \in 1..Len(s) |-> IF i = 1 THEN NaN ELSE FSub(s[i], s[i - 1])])

\* The boolean series delta > 0 and delta < 0; a comparison with NaN is false.
GtZero(s) == AsSeries([i \in 1..Len(s) |-> FGt(s[i], Num(0))])
LtZero(s) == AsSeries([i \in 1..Len(s) |-> FLt(s[i], Num(0))])

\* Series.where(cond, other): keeps the elements where cond holds.
Where(s, cond, other) ==
    AsSeries([i \in 1..Len(s) |-> IF cond[i] THEN s[i] ELSE other])

\* Mutant: the sign of the losses is kept (loss = delta.where(delta < 0, 0)).
KeepSign(s) == AsSeries([i \in 1..Len(s) |-> s[i]])

\* -s
NegSeries(s) == AsSeries([i \in 1..Len(s) |-> FNeg(s[i])])

\* The window of w observations that ends at i.  min_periods defaults to the
\* window, so a point with fewer than w observations (or a NaN among them) has
\* no window.
HasWindow(s, w, i) ==
    i >= w /\ \A j \in (i - w + 1)..i : s[j].k # "nan"

Window(s, w, i) == SubSeq(s, i - w + 1, i)

\* Series.rolling(window=w).mean()
RollingMean(s, w) ==
    AsSeries([i \in 1..Len(s) |->
        IF HasWindow(s, w, i) THEN Mean(Window(s, w, i)) ELSE NaN])

\* Series.rolling(window=w).std()
RollingStd(s, w) ==
    AsSeries([i \in 1..Len(s) |->
        IF HasWindow(s, w, i) THEN Std(Window(s, w, i)) ELSE NaN])

\* Series.replace([inf, -inf], 0)
ReplaceInf(s) ==
    AsSeries([i \in 1..Len(s) |-> IF s[i].k = "inf" THEN Num(0) ELSE s[i]])

(***************************************************************************)
(* The table (pandas.DataFrame): rows carry the index label and the        *)
(* original fields; open, high, low and volume travel with the row and no  *)
(* operation reads them, so they are not listed.  Derived columns are kept *)
(* in column order: cols[j] names the column whose values are vals[j].     *)
(***************************************************************************)
NoFrame == [rows |-> <<>>, cols |-> <<>>, vals |-> <<>>]

TickerRank(t) == CHOOSE i \in 1..Len(Tickers) : Tickers[i] = t

\* Mutant: sort_values(by=['date']), the ticker forgotten.
KeyLeqDateOnly(r1, r2) == r1.date <= r2.date

\* Key order of sort_values(by=['ticker', 'date']).
KeyLeq(r1, r2) ==
    \/ TickerRank(r1.ticker) < TickerRank(r2.ticker)
    \/ r1.ticker = r2.ticker /\ r1.date <= r2.date

\* sort_values on several keys is a stable sort: rows with equal keys keep
\* their input order.
RECURSIVE InsertRow(_, _)
InsertRow(sorted, r) ==
    IF sorted = <<>> THEN <<r>>
    ELSE IF KeyLeq(sorted[Len(sorted)], r) THEN Append(sorted, r)
    ELSE Append(InsertRow(SubSeq(sorted, 1, Len(sorted) - 1), r),
                sorted[Len(sorted)])

RECURSIVE SortValues(_)
SortValues(rows) ==
    IF rows = <<>> THEN <<>>
    ELSE InsertRow(SortValues(SubSeq(rows, 1, Len(rows) - 1)), rows[Len(rows)])

HasColumn(f, name) == \E j \in 1..Len(f.cols) : f.cols[j] = name

ColIndex(f, name) == CHOOSE j \in 1..Len(f.cols) : f.cols[j] = name

Column(f, name) == f.vals[ColIndex(f, name)]

\* Mutant: the column is always appended, so a second call duplicates it.
SetColumnAppend(f, name, col) ==
    [f EXCEPT !.cols = Append(f.cols, name), !.vals = Append(f.vals, col)]

\* df[name] = col: overwrites the column of that name in place, or appends it.
SetColumn(f, name, col) ==
    IF HasColumn(f, name)
    THEN [f EXCEPT !.vals[ColIndex(f, name)] = col]
    ELSE [f EXCEPT !.cols = Append(f.cols, name), !.vals = Append(f.vals, col)]

\* The rows of f where mask holds, with every column (df[mask].copy()).
Filter(f, mask) ==
    LET keep == SelectSeq([i \in 1..Len(f.rows) |-> i], LAMBDA i : mask[i])
    IN  [rows |-> AsSeries([j \in 1..Len(keep) |-> f.rows[keep[j]]]),
         cols |-> f.cols,
         vals |-> AsSeries([c \in 1..Len(f.cols) |->
                      AsSeries([j \in 1..Len(keep) |-> f.vals[c][keep[j]]])])]

\* Positions of ticker t's rows, in table order.
Positions(rows, t) ==
    SelectSeq([i \in 1..Len(rows) |-> i], LAMBDA i : rows[i].ticker = t)

\* Mutant: the groupby forgotten, the whole table is one group.
GroupsAsOne(rows) ==
    <<[pos |-> AsSeries([i \in 1..Len(rows) |-> i]),
       close |-> AsSeries([i \in 1..Len(rows) |-> Num(rows[i].close)])]>>

\* df.groupby('ticker')['close']: per ticker, in key order, the positions of
\* its rows and their closes, in table order.  A ticker without rows is an
\* empty group.
Groups(rows) ==
    AsSeries([t \in 1..Len(Tickers) |->
        LET p == Positions(rows, Tickers[t])
        IN  [pos |-> p,
             close |-> AsSeries([j \in 1..Len(p) |-> Num(rows[p[j]].close)])]])

\* transform(): res[g], the result for group g, goes back to that group's rows.
Transform(rows, groups, res) ==
    AsSeries([i \in 1..Len(rows) |->
        LET g == CHOOSE x \in 1..Len(groups) :
                     \E j \in 1..Len(groups[x].pos) : groups[x].pos[j] = i
            j == CHOOSE y \in 1..Len(groups[g].pos) : groups[g].pos[y] = i
        IN  res[g][j]])

(***************************************************************************)
(* TechnicalAnalyzer.                                                      *)
(***************************************************************************)
\* Mutant: the field name leaves the window out.
SmaNameFixed(w) == "sma"

SmaName(w) == "sma_" \o ToString(w)

\* Mutant: add_rsi names its column as add_sma does.
RsiNameAsSma(w) == "sma_" \o ToString(w)

RsiName(w) == "rsi_" \o ToString(w)

\* groupby('ticker')['close'].transform(lambda x: x.rolling(window).mean())
SmaColumn(rows, w) ==
    LET g == Groups(rows)
    IN  Transform(rows, g,
                  AsSeries([t \in 1..Len(g) |-> RollingMean(g[t].close, w)]))

\* Mutant: add_sma ends with self.df = self.df.dropna(subset=[col_name]).
add_sma_dropna(f, w) ==
    LET col == SmaColumn(f.rows, w)
    IN  Filter(SetColumn(f, SmaName(w), col),
               AsSeries([i \in 1..Len(f.rows) |-> col[i].k # "nan"]))

add_sma(f, w) == SetColumn(f, SmaName(w), SmaColumn(f.rows, w))

calculate_rsi_series(series, w) ==
    LET delta == Diff(series)
        gain == RollingMean(Where(delta, GtZero(delta), Num(0)), w)
        loss == RollingMean(NegSeries(Where(delta, LtZero(delta), Num(0))), w)
        rs == ReplaceInf(AsSeries([i \in 1..Len(series) |->
                                      FDiv(gain[i], loss[i])]))
    IN  AsSeries([i \in 1..Len(series) |->
            FSub(Num(100), FDiv(Num(100), FAdd(Num(1), rs[i])))])

\* groupby('ticker')['close'].transform(calculate_rsi_series)
RsiColumn(rows, w) ==
    LET g == Groups(rows)
    IN  Transform(rows, g,
                  AsSeries([t \in 1..Len(g) |->
                               calculate_rsi_series(g[t].close, w)]))

add_rsi(f, w) == SetColumn(f, RsiName(w), RsiColumn(f.rows, w))

\* groupby('ticker')['close'].transform(lambda x: x.rolling(window).std())
StdColumn(rows, w) ==
    LET g == Groups(rows)
    IN  Transform(rows, g,
                  AsSeries([t \in 1..Len(g) |-> RollingStd(g[t].close, w)]))

add_bollinger_bands(f, w, k) ==
    LET f1 == SetColumn(f, "bb_mid", SmaColumn(f.rows, w))
        std_dev == StdColumn(f.rows, w)
        mid == Column(f1, "bb_mid")
        f2 == SetColumn(f1, "bb_upper",
                  AsSeries([i \in 1..Len(f.rows) |->
                               FAdd(mid[i], FScale(std_dev[i], k))]))
    IN  SetColumn(f2, "bb_lower",
                  AsSeries([i \in 1..Len(f.rows) |->
                               FSub(mid[i], FScale(std_dev[i], k))]))

\* apply_strategy_rsi_reversal computes rsi_14 when the table lacks it.
EnsureRsi(f) == IF ~HasColumn(f, "rsi_14") THEN add_rsi(f, RSI_WINDOW) ELSE f

\* Mutant: rsi_14 <= threshold.
SignalMaskLe(f, threshold) ==
    LET rsi == Column(f, "rsi_14")
    IN  AsSeries([i \in 1..Len(f.rows) |->
                     rsi[i].k = "num" /\ ~FLt(Num(threshold), rsi[i])])

\* signal_mask = self.df['rsi_14'] < rsi_threshold
SignalMask(f, threshold) ==
    LET rsi == Column(f, "rsi_14")
    IN  AsSeries([i \in 1..Len(f.rows) |-> FLt(rsi[i], Num(threshold))])

\* Mutant: the mask is kept in the table (self.df['signal'] = signal_mask).
AfterApplyMarks(f, threshold) ==
    SetColumn(EnsureRsi(f), "signal", SignalMask(EnsureRsi(f), threshold))

\* The table apply_strategy_rsi_reversal leaves behind.
AfterApply(f, threshold) == EnsureRsi(f)

(***************************************************************************)
(* State.                                                                  *)
(***************************************************************************)
VARIABLES
    input,      \* the DataFrame the caller passes to the constructor
    pc,         \* "new": not constructed; "ready"; "failed": __init__ raised
    df,         \* self.df
    calls,      \* the indicator calls made on the analyzer so far
    signals     \* what the last apply_strategy_rsi_reversal returned

\* The persistence store of src/src/db_manager.py.
VARIABLES
    engine,     \* self.engine is set: the DBManager is connected
    now,        \* the calendar day of datetime.now()
    records,    \* the committed rows of daily_analysis, in insertion order
    sessions,   \* per caller, the save_analysis call it is in
    saves       \* save_analysis calls started so far

storeVars == <<engine, now, records, sessions, saves>>

\* GeminiAgent.analyze_news of src/src/agents/llm_agent.py.
VARIABLES
    hasModel,   \* __init__ managed to set self.model
    news,       \* news_items, the headlines passed in
    agentAt,    \* "idle", "trying" (in the for loop), "broke", "returned"
    attempt,    \* iterations of the for loop begun so far
    modelCalls, \* calls of self.model.generate_content so far
    waits,      \* time.sleep(20) calls so far
    outcomes,   \* what each iteration met, in order
    result      \* what analyze_news returned

agentVars == <<hasModel, news, agentAt, attempt, modelCalls, waits, outcomes,
               result>>

\* main() of src/main.py.
VARIABLES
    mainAt,         \* the place main() has reached
    today_signals,  \* the signal rows of the latest date
    loop_i,         \* rows of today_signals the loop has finished
    news_items,     \* what the last search_news returned
    report_msg,     \* the entries appended to the report so far
    sent,           \* the messages passed to bot.send_message, in order
    events          \* the searches and analyses done, in order

mainVars == <<mainAt, today_signals, loop_i, news_items, report_msg, sent,
              events>>

analyzerVars == <<input, pc, df, calls, signals>>

vars == <<analyzerVars, storeVars, agentVars, mainVars>>

NoResult == [summary |-> "", sentiment |-> "", score |-> 0]

\* analyze_news is never called.
AgentUnused ==
    /\ hasModel = FALSE
    /\ news = <<>>
    /\ agentAt = "idle"
    /\ attempt = 0
    /\ modelCalls = 0
    /\ waits = 0
    /\ outcomes = <<>>
    /\ result = NoResult

\* main() has not begun.
MainUnused ==
    /\ mainAt = "start"
    /\ today_signals = <<>>
    /\ loop_i = 0
    /\ news_items = <<>>
    /\ report_msg = <<>>
    /\ sent = <<>>
    /\ events = <<>>

\* A caller that is in no save_analysis call.
NoCall == [at |-> "closed", ticker |-> Tickers[1], price |-> 0, today |-> 0,
           existing |-> 0]

\* The store of a run that never builds a DBManager.
StoreUnused ==
    /\ engine = FALSE
    /\ now = 1
    /\ records = <<>>
    /\ sessions = [s \in 1..MaxSessions |-> NoCall]
    /\ saves = 0

NoSignals == [called |-> FALSE, threshold |-> 0, frame |-> NoFrame]

\* via: "caller", or "strategy" for the add_rsi that
\* apply_strategy_rsi_reversal makes itself.
Call(op, w, k) == [op |-> op, w |-> w, k |-> k, via |-> "caller"]

\* get_result() hands out self.df itself.
get_result == df

(***************************************************************************)
(* Inputs.  The index labels are those of a fresh RangeIndex.              *)
(***************************************************************************)
WithIndex(rs) ==
    [i \in 1..Len(rs) |->
        [idx |-> i - 1, ticker |-> rs[i].ticker, date |-> rs[i].date,
         close |-> rs[i].close]]

RowKinds ==
    {[ticker |-> Tickers[t], date |-> d, close |-> c] :
        t \in 1..Len(Tickers), d \in Dates, c \in UnorderedCloses}

\* Any rows in any order, the empty table and repeated (ticker, date) included.
UnorderedInputs ==
    {WithIndex(rs) : rs \in UNION {[1..n -> RowKinds] : n \in 0..MaxRows}}

SeriesOfLen(n) == [1..n -> Closes]

\* What StockDataLoader.fetch_daily_data returns: per ticker one row per day,
\* listed day by day (stack() of the downloaded frame).  sa and sb are the two
\* tickers' closes on days 1, 2, ...
LoaderRows(sa, sb) ==
    LET n == IF Len(sa) > Len(sb) THEN Len(sa) ELSE Len(sb)
        day(d) ==
            (IF d <= Len(sa)
             THEN <<[ticker |-> Tickers[1], date |-> d, close |-> sa[d]]>>
             ELSE <<>>)
            \o (IF d <= Len(sb)
                THEN <<[ticker |-> Tickers[2], date |-> d, close |-> sb[d]]>>
                ELSE <<>>)
        RECURSIVE upto(_)
        upto(d) == IF d = 0 THEN <<>> ELSE upto(d - 1) \o day(d)
    IN  WithIndex(upto(n))

LoaderInputs ==
    {LoaderRows(sa, sb) :
        sa \in UNION {SeriesOfLen(n) : n \in 0..MaxLen},
        sb \in UNION {SeriesOfLen(n) : n \in 0..MaxLen}}

\* No analyzer is built.
AnalyzerUnused ==
    /\ input = <<>>
    /\ pc = "new"
    /\ df = NoFrame
    /\ calls = <<>>
    /\ signals = NoSignals

InitWith(inputs) ==
    /\ input \in inputs
    /\ pc = "new"
    /\ df = NoFrame
    /\ calls = <<>>
    /\ signals = NoSignals
    /\ StoreUnused
    /\ AgentUnused
    /\ MainUnused

(***************************************************************************)
(* Operations.                                                             *)
(***************************************************************************)
\* TechnicalAnalyzer.__init__: copy, refuse an empty table, sort.
Construct ==
    /\ pc = "new"
    /\ IF input = <<>>
       THEN /\ pc' = "failed"
            /\ df' = df
       ELSE /\ pc' = "ready"
            /\ df' = [rows |-> SortValues(input), cols |-> <<>>, vals |-> <<>>]
    /\ UNCHANGED <<input, calls, signals, storeVars, agentVars, mainVars>>

AddSma(w, limit) ==
    /\ pc = "ready"
    /\ Len(calls) < limit
    /\ df' = add_sma(df, w)
    /\ calls' = Append(calls, Call("sma", w, 0))
    /\ UNCHANGED <<input, pc, signals, storeVars, agentVars, mainVars>>

AddRsi(w, limit) ==
    /\ pc = "ready"
    /\ Len(calls) < limit
    /\ df' = add_rsi(df, w)
    /\ calls' = Append(calls, Call("rsi", w, 0))
    /\ UNCHANGED <<input, pc, signals, storeVars, agentVars, mainVars>>

AddBollinger(w, k, limit) ==
    /\ pc = "ready"
    /\ Len(calls) < limit
    /\ df' = add_bollinger_bands(df, w, k)
    /\ calls' = Append(calls, Call("bb", w, k))
    /\ UNCHANGED <<input, pc, signals, storeVars, agentVars, mainVars>>

ApplyStrategy(threshold) ==
    /\ pc = "ready"
    /\ df' = AfterApply(df, threshold)
    /\ calls' = IF HasColumn(df, "rsi_14") THEN calls
                ELSE Append(calls, [Call("rsi", RSI_WINDOW, 0)
                                       EXCEPT !.via = "strategy"])
    /\ signals' = [called |-> TRUE, threshold |-> threshold,
                   frame |-> Filter(df', SignalMask(df', threshold))]
    /\ UNCHANGED <<input, pc, storeVars, agentVars, mainVars>>

\* A series of n points that starts at 20 and repeats the moves of pat.
LongSeries(pat, n) ==
    LET RECURSIVE at(_)
        at(i) == IF i = 1 THEN 20
                 ELSE at(i - 1) + pat[((i - 2) % Len(pat)) + 1]
    IN  [i \in 1..n |-> at(i)]

Patterns == UNION {[1..m -> Steps] : m \in 1..PatLen}

\* Long enough for the 14-day RSI: the first ticker repeats any pattern, the
\* second is absent or moves the same way every day.
LongInputs ==
    {LoaderRows(LongSeries(pa, n), sb) :
        pa \in Patterns,
        n \in (RSI_WINDOW - 1)..(RSI_WINDOW + ExtraLen),
        sb \in {<<>>} \cup {LongSeries(<<m>>, RSI_WINDOW + 1) : m \in Steps}}

\* Both tickers, the first with a full series.
ChainInputs ==
    {LoaderRows(sa, sb) :
        sa \in SeriesOfLen(MaxLen),
        sb \in {<<>>} \cup {<<c, 2>> : c \in Closes}}

(***************************************************************************)
(* Spec: a table as the loader returns it, and one indicator call.         *)
(***************************************************************************)
Init == InitWith(LoaderInputs)

Next ==
    \/ Construct
    \/ \E w \in 1..MaxWindow : AddSma(w, 1)
    \/ \E w \in 1..MaxWindow : AddRsi(w, 1)
    \/ \E w \in 1..MaxWindow : AddBollinger(w, 2, 1)

Spec == Init /\ [][Next]_vars

(***************************************************************************)
(* SpecUnordered: any rows in any order, and one indicator call.           *)
(***************************************************************************)
InitUnordered == InitWith(UnorderedInputs)

NextUnordered ==
    \/ Construct
    \/ \E w \in 1..MaxWindow : AddSma(w, 1)
    \/ \E w \in 1..MaxWindow : AddRsi(w, 1)
    \/ \E w \in 1..MaxWindow : AddBollinger(w, 2, 1)

SpecUnordered == InitUnordered /\ [][NextUnordered]_vars

(***************************************************************************)
(* SpecChain: up to MaxCalls chained indicator calls.                      *)
(***************************************************************************)
InitChain == InitWith(ChainInputs)

NextChain ==
    \/ Construct
    \/ AddSma(MaxWindow, MaxCalls)
    \/ AddRsi(MaxWindow, MaxCalls)
    \/ \E k \in NumStds : AddBollinger(MaxWindow, k, MaxCalls)

SpecChain == InitChain /\ [][NextChain]_vars

(***************************************************************************)
(* SpecPairs: two indicator calls in a row, each with any window.          *)
(***************************************************************************)
InitPairs == InitWith(ChainInputs)

NextPairs ==
    \/ Construct
    \/ \E w \in 1..MaxWindow : AddSma(w, 2)
    \/ \E w \in 1..MaxWindow : AddRsi(w, 2)
    \/ \E w \in 1..MaxWindow, k \in NumStds : AddBollinger(w, k, 2)

SpecPairs == InitPairs /\ [][NextPairs]_vars

(***************************************************************************)
(* SpecSignal: long series and the signal evaluator.                       *)
(***************************************************************************)
InitSignal == InitWith(LongInputs)

NextSignal ==
    \/ Construct
    \/ AddSma(MaxWindow, 1)
    \/ AddRsi(RSI_WINDOW, 2)
    \/ \E t \in Thresholds : ApplyStrategy(t)

SpecSignal == InitSignal /\ [][NextSignal]_vars

(***************************************************************************)
(* DBManager of src/src/db_manager.py.  A row of daily_analysis carries    *)
(* its id, its ticker, the calendar day of created_at and the saved price; *)
(* rsi, ai_score, ai_sentiment and ai_summary are written where the price  *)
(* is and with it.  Each caller runs save_analysis in a session of its     *)
(* own: what a session queries is what has been committed, and what it     *)
(* writes is visible to the others once it commits.                        *)
(***************************************************************************)
Prices == {1, 2}

\* The rows of ticker t whose created_at falls on day d.
Matching(rs, t, d) == {i \in 1..Len(rs) : rs[i].ticker = t /\ rs[i].day = d}

\* save_analysis up to the query: return at once without an engine; else open
\* a session and take today's date and the ticker.
SaveBegin(s, t, price) ==
    /\ sessions[s].at = "closed"
    /\ saves < MaxSaves
    /\ saves' = saves + 1
    /\ sessions' = IF ~engine THEN sessions
                   ELSE [sessions EXCEPT ![s] =
                            [at |-> "opened", ticker |-> t, price |-> price,
                             today |-> now, existing |-> 0]]
    /\ UNCHANGED <<engine, now, records, analyzerVars, agentVars,
                   mainVars>>

\* The query: .first() of the rows of this ticker created today, in no stated
\* order; 0 stands for None.
SaveQuery(s) ==
    /\ sessions[s].at = "opened"
    /\ LET m == Matching(records, sessions[s].ticker, sessions[s].today)
       IN  IF m = {}
           THEN sessions' = [sessions EXCEPT ![s].at = "queried",
                                             ![s].existing = 0]
           ELSE \E i \in m :
                    sessions' = [sessions EXCEPT ![s].at = "queried",
                                                 ![s].existing = records[i].id]
    /\ UNCHANGED <<engine, now, records, saves, analyzerVars, agentVars,
                   mainVars>>

\* existing_record.price = ...; created_at = datetime.now(): the rows after an update of the row with this id.
UpdateRecord(rs, id, price, day) ==
    [i \in 1..Len(rs) |->
        IF rs[i].id = id THEN [rs[i] EXCEPT !.price = price, !.day = day]
        ELSE rs[i]]

\* A new row; the id counts up, created_at defaults to datetime.now().
InsertRecord(rs, t, price, day) ==
    Append(rs, [id |-> Len(rs) + 1, ticker |-> t, day |-> day, price |-> price])

\* Update the row found or add a new one, commit and close the session.
SaveCommit(s) ==
    /\ sessions[s].at = "queried"
    /\ records' = IF sessions[s].existing # 0
                  THEN UpdateRecord(records, sessions[s].existing,
                                    sessions[s].price, now)
                  ELSE InsertRecord(records, sessions[s].ticker,
                                    sessions[s].price, now)
    /\ sessions' = [sessions EXCEPT ![s] = NoCall]
    /\ UNCHANGED <<engine, now, saves, analyzerVars, agentVars,
                   mainVars>>

\* The query or the commit raises: roll back and close the session.
SaveError(s) ==
    /\ sessions[s].at \in {"opened", "queried"}
    /\ sessions' = [sessions EXCEPT ![s] = NoCall]
    /\ UNCHANGED <<engine, now, records, saves, analyzerVars, agentVars,
                   mainVars>>

\* Midnight passes.
Tick ==
    /\ now < MaxDay
    /\ now' = now + 1
    /\ UNCHANGED <<engine, records, sessions, saves, analyzerVars, agentVars,
                   mainVars>>

(***************************************************************************)
(* SpecStore: callers saving analyses, each in a session of its own.       *)
(***************************************************************************)
InitStore ==
    /\ AnalyzerUnused
    /\ AgentUnused
    /\ MainUnused
    /\ engine \in BOOLEAN
    /\ now = 1
    /\ records = <<>>
    /\ sessions = [s \in 1..MaxSessions |-> NoCall]
    /\ saves = 0

NextStore ==
    \/ \E s \in 1..MaxSessions, t \in Range(Tickers), price \in Prices :
           SaveBegin(s, t, price)
    \/ \E s \in 1..MaxSessions : SaveQuery(s)
    \/ \E s \in 1..MaxSessions : SaveCommit(s)
    \/ \E s \in 1..MaxSessions : SaveError(s)
    \/ Tick

SpecStore == InitStore /\ [][NextStore]_vars

(***************************************************************************)
(* GeminiAgent of src/src/agents/llm_agent.py.  A response text is a       *)
(* sequence of lines; a line is known by the first of the keys SENTIMENT:, *)
(* SCORE: and REASON: it holds (key is "" when it holds none) and by what  *)
(* follows its first colon.  The summaries, which the source writes in     *)
(* Korean, are given in English.                                           *)
(***************************************************************************)
MAX_ATTEMPTS == 3       \* for attempt in range(3)
MaxLines == 2           \* lines of a response text

NewsLists == {<<>>, <<"headline 1">>, <<"headline 1", "headline 2">>}

LineKinds ==
    {[key |-> "SENTIMENT:", rest |-> "BULLISH"],
     [key |-> "SENTIMENT:", rest |-> "BEARISH"],
     [key |-> "SCORE:", rest |-> "**0.8**"],
     [key |-> "SCORE:", rest |-> "high"],
     [key |-> "REASON:", rest |-> "earnings beat"],
     [key |-> "", rest |-> "Here is my analysis"]}

Texts == UNION {[1..n -> LineKinds] : n \in 1..MaxLines}

\* clean_score: the text with every '*' and '#' removed.
CleanScore(v) == IF v = "**0.8**" THEN "0.8" ELSE v

\* float(clean_score), or 0.0 when float() raises.
ScoreOf(v) == IF CleanScore(v) = "0.8" THEN Rat(4, 5) ELSE Num(0)

NoNews == [summary |-> "no news", sentiment |-> "NEUTRAL", score |-> Num(0)]
GeminiError == [summary |-> "Gemini error", sentiment |-> "ERROR", score |-> Num(0)]
ParseDefault == [summary |-> "analysis failed", sentiment |-> "NEUTRAL",
                 score |-> Num(0)]

\* _parse_response: each line with a key overwrites that key's field.
RECURSIVE ParseLines(_, _)
ParseLines(lines, res) ==
    IF lines = <<>> THEN res
    ELSE LET l == lines[1]
             r == CASE l.key = "SENTIMENT:" -> [res EXCEPT !.sentiment = l.rest]
                    [] l.key = "SCORE:" -> [res EXCEPT !.score = ScoreOf(l.rest)]
                    [] l.key = "REASON:" -> [res EXCEPT !.summary = l.rest]
                    [] OTHER -> res
         IN  ParseLines(Tail(lines), r)

parse_response(text) == ParseLines(text, ParseDefault)

\* What one iteration of the loop can meet: a response with a text, a response
\* whose text is empty, an exception whose message holds "429", another one.
Outcome(kind, text) == [kind |-> kind, text |-> text]

Outcomes ==
    {Outcome("text", t) : t \in Texts}
        \cup {Outcome("empty", <<>>), Outcome("quota", <<>>), Outcome("error", <<>>)}

\* Mutant: every exception is taken for a quota limit and the loop goes on.
AfterExceptionRetry(kind) == "trying"

\* The except clause: "429" in str(e) sleeps and lets the loop go on, any
\* other exception breaks out of it.
AfterException(kind) == IF kind = "quota" THEN "trying" ELSE "broke"

\* analyze_news up to the loop: without news return the NEUTRAL result.
AnalyzeNews ==
    /\ agentAt = "idle"
    /\ IF news = <<>>
       THEN agentAt' = "returned" /\ result' = NoNews
       ELSE agentAt' = "trying" /\ result' = result
    /\ UNCHANGED <<hasModel, news, attempt, modelCalls, waits, outcomes,
                   analyzerVars, storeVars, mainVars>>

\* One iteration of the loop.  Without self.model the call raises an
\* AttributeError before any request is made.
Attempt(o) ==
    /\ agentAt = "trying"
    /\ attempt < MAX_ATTEMPTS
    /\ ~hasModel => o = Outcome("error", <<>>)
    /\ attempt' = attempt + 1
    /\ modelCalls' = IF hasModel THEN modelCalls + 1 ELSE modelCalls
    /\ outcomes' = Append(outcomes, o)
    /\ waits' = IF AfterException(o.kind) = "trying" /\ o.kind \in {"quota", "error"}
                THEN waits + 1 ELSE waits
    /\ agentAt' = CASE o.kind = "text" -> "returned"
                    [] o.kind = "empty" -> "trying"
                    [] OTHER -> AfterException(o.kind)
    /\ result' = IF o.kind = "text" THEN parse_response(o.text) ELSE result
    /\ UNCHANGED <<hasModel, news, analyzerVars, storeVars, mainVars>>

\* The loop ended without a return: the fixed error result.
ReturnError ==
    /\ \/ agentAt = "trying" /\ attempt = MAX_ATTEMPTS
       \/ agentAt = "broke"
    /\ agentAt' = "returned"
    /\ result' = GeminiError
    /\ UNCHANGED <<hasModel, news, attempt, modelCalls, waits, outcomes,
                   analyzerVars, storeVars, mainVars>>

(***************************************************************************)
(* SpecAgent: one call of GeminiAgent.analyze_news.  The call runs in one  *)
(* thread, and every request and every sleep comes back, so a step that    *)
(* can be taken is taken.                                                  *)
(***************************************************************************)
InitAgent ==
    /\ AnalyzerUnused
    /\ StoreUnused
    /\ MainUnused
    /\ hasModel \in BOOLEAN
    /\ news \in NewsLists
    /\ agentAt = "idle"
    /\ attempt = 0
    /\ modelCalls = 0
    /\ waits = 0
    /\ outcomes = <<>>
    /\ result = NoResult

NextAgent ==
    \/ AnalyzeNews
    \/ \E o \in Outcomes : Attempt(o)
    \/ ReturnError

SpecAgent == InitAgent /\ [][NextAgent]_vars /\ WF_vars(NextAgent)

(***************************************************************************)
(* main() of src/main.py: fetch, analyze, pick the signals of the latest   *)
(* date, have each searched and analyzed, and send one message.  sent      *)
(* lists the calls of bot.send_message.  brain_agent is any agent with the *)
(* analyze_news of BaseLLMAgent.                                           *)
(***************************************************************************)
MAIN_SMA_WINDOW == 20       \* analyzer.add_sma(20)
BB_WINDOW == 20             \* add_bollinger_bands' default window
BB_NUM_STD == 2             \* add_bollinger_bands' default num_std

\* What search_news can return: nothing, or headlines.
SearchResults == {<<>>, <<"[Breaking] headline 1", "headline 2">>}

\* What analyze_news can return.
AnalysisResults ==
    {NoNews, GeminiError,
     parse_response(<<[key |-> "SENTIMENT:", rest |-> "BULLISH"],
                      [key |-> "SCORE:", rest |-> "**0.8**"]>>)}

\* The tables fetch_daily_data can return: the empty one when the download
\* failed.
MainInputs == {<<>>} \cup LongInputs

\* title.replace("[", "(").replace("]", ")")
ReplaceBrackets(title) ==
    IF title = "[Breaking] headline 1" THEN "(Breaking) headline 1" ELSE title

\* The icon of a score: above 0.2, below -0.2, or between.
Icon(score) ==
    IF FGt(score, Rat(1, 5)) THEN "fire"
    ELSE IF FLt(score, Rat(-1, 5)) THEN "drop"
    ELSE "scales"

NoActionMsg == [kind |-> "no_action", entries |-> <<>>]
ReportMsg(entries) == [kind |-> "report", entries |-> entries]

\* df['date'].max() of a table with rows.
RECURSIVE LatestDate(_)
LatestDate(rows) ==
    IF Len(rows) = 1 THEN rows[1].date
    ELSE LET m == LatestDate(Tail(rows))
         IN  IF rows[1].date > m THEN rows[1].date ELSE m

\* Mutant: the date filter forgotten, every signal is one of today.
TodaySignalsAll(frame, latest_date) == frame

\* buy_signals[buy_signals['date'] == latest_date]
TodaySignals(frame, latest_date) ==
    Filter(frame, AsSeries([i \in 1..Len(frame.rows) |->
                               frame.rows[i].date = latest_date]))

\* Lines 22-28: fetch; return when the table is empty.
MainFetch ==
    /\ mainAt = "start"
    /\ mainAt' = IF input = <<>> THEN "done" ELSE "fetched"
    /\ UNCHANGED <<today_signals, loop_i, news_items, report_msg, sent, events,
                   analyzerVars, storeVars, agentVars>>

\* Lines 31-37: build the analyzer, add the indicators, apply the strategy.
MainAnalyze ==
    /\ mainAt = "fetched"
    /\ pc' = "ready"
    /\ df' = AfterApply(
                 add_bollinger_bands(
                     add_rsi(add_sma([rows |-> SortValues(input), cols |-> <<>>,
                                      vals |-> <<>>], MAIN_SMA_WINDOW),
                             RSI_WINDOW),
                     BB_WINDOW, BB_NUM_STD),
                 MAIN_THRESHOLD)
    /\ calls' = <<Call("sma", MAIN_SMA_WINDOW, 0), Call("rsi", RSI_WINDOW, 0),
                  Call("bb", BB_WINDOW, BB_NUM_STD)>>
    /\ signals' = [called |-> TRUE, threshold |-> MAIN_THRESHOLD,
                   frame |-> Filter(df', SignalMask(df', MAIN_THRESHOLD))]
    /\ mainAt' = "analyzed"
    /\ UNCHANGED <<input, today_signals, loop_i, news_items, report_msg, sent,
                   events, storeVars, agentVars>>

\* Lines 39-46: the signals of the latest date; without any, send the
\* no-action message and return.
MainSelect ==
    /\ mainAt = "analyzed"
    /\ today_signals' = TodaySignals(signals.frame, LatestDate(input)).rows
    /\ IF today_signals' = <<>>
       THEN sent' = Append(sent, NoActionMsg) /\ mainAt' = "done"
       ELSE sent' = sent /\ mainAt' = "loop"
    /\ UNCHANGED <<loop_i, news_items, report_msg, events, analyzerVars,
                   storeVars, agentVars>>

\* Line 65: the news search for the next row.
MainSearch(found) ==
    /\ mainAt = "loop"
    /\ loop_i < Len(today_signals)
    /\ news_items' = found
    /\ events' = Append(events, [op |-> "search",
                                 ticker |-> today_signals[loop_i + 1].ticker])
    /\ mainAt' = "searched"
    /\ UNCHANGED <<today_signals, loop_i, report_msg, sent, analyzerVars,
                   storeVars, agentVars>>

\* Lines 68-89: the analysis of the row's news and its entry in the report.
MainAnalyzeNews(ai_result) ==
    /\ mainAt = "searched"
    /\ events' = Append(events, [op |-> "analyze",
                                 ticker |-> today_signals[loop_i + 1].ticker])
    /\ report_msg' =
           Append(report_msg,
                  [ticker |-> today_signals[loop_i + 1].ticker,
                   price |-> today_signals[loop_i + 1].close,
                   icon |-> Icon(ai_result.score),
                   summary |-> ai_result.summary,
                   score |-> ai_result.score,
                   sentiment |-> ai_result.sentiment,
                   top_news |-> IF news_items # <<>>
                                THEN <<ReplaceBrackets(news_items[1])>>
                                ELSE <<>>])
    /\ loop_i' = loop_i + 1
    /\ mainAt' = "loop"
    /\ UNCHANGED <<today_signals, news_items, sent, analyzerVars, storeVars,
                   agentVars>>

\* Line 102: the loop is over, send the report.
MainSend ==
    /\ mainAt = "loop"
    /\ loop_i = Len(today_signals)
    /\ sent' = Append(sent, ReportMsg(report_msg))
    /\ mainAt' = "done"
    /\ UNCHANGED <<today_signals, loop_i, news_items, report_msg, events,
                   analyzerVars, storeVars, agentVars>>

(***************************************************************************)
(* SpecMain: one run of main().                                            *)
(***************************************************************************)
InitMain == InitWith(MainInputs)

NextMain ==
    \/ MainFetch
    \/ MainAnalyze
    \/ MainSelect
    \/ \E found \in SearchResults : MainSearch(found)
    \/ \E ai_result \in AnalysisResults : MainAnalyzeNews(ai_result)
    \/ MainSend

SpecMain == InitMain /\ [][NextMain]_vars

(***************************************************************************)
(* Properties.                                                             *)
(***************************************************************************)
\* The positions, in table order, of the rows of the t-th ticker.
SeriesAt(t) == Positions(df.rows, Tickers[t])

TickerCount(rows) == Cardinality({rows[i].ticker : i \in 1..Len(rows)})

\* Sum of the closes of the rows at positions p[a], ..., p[b].
RECURSIVE CloseSum(_, _, _)
CloseSum(p, a, b) ==
    IF a > b THEN 0 ELSE df.rows[p[a]].close + CloseSum(p, a + 1, b)

\* The close of the point at p[i] is lower than the one before it.
Falls(p, i) == df.rows[p[i]].close < df.rows[p[i - 1]].close

SomeDefined(col) == \E i \in 1..Len(col) : col[i].k = "num"
SomeUndefined(col) == \E i \in 1..Len(col) : col[i].k = "nan"

\* C1: constructing from an empty row sequence fails and builds no table;
\* from a non-empty one it succeeds and the table holds exactly the input
\* rows, ordered by ticker and, within a ticker, by date ascending.
C1_ConstructSorts ==
    pc # "new" =>
        IF input = <<>>
        THEN pc = "failed" /\ df = NoFrame
        ELSE /\ pc = "ready"
             /\ Len(df.rows) = Len(input)
             /\ Range(df.rows) = Range(input)
             /\ \A i \in 1..(Len(df.rows) - 1) :
                    LET a == df.rows[i]
                        b == df.rows[i + 1]
                    IN  \/ TickerRank(a.ticker) < TickerRank(b.ticker)
                        \/ a.ticker = b.ticker /\ a.date <= b.date

\* C1 witness: a table built from rows of two tickers that were out of order.
C1_Witness ==
    /\ pc = "ready"
    /\ df.rows # input
    /\ TickerCount(df.rows) = 2
    /\ \E i \in 1..(Len(input) - 1) :
           input[i].ticker = input[i + 1].ticker /\ input[i].date > input[i + 1].date

\* C2: sma_w at the point of chronological index i of a ticker is the mean of
\* that ticker's closes at indices i-w+1..i when i >= w-1, and undefined when
\* i < w-1 (i counts from 0; the position in the series is i+1).
C2_SmaIsTrailingMean ==
    \A w \in 1..MaxWindow :
        (pc = "ready" /\ HasColumn(df, SmaName(w))) =>
            \A t \in 1..Len(Tickers) :
                LET p == SeriesAt(t)
                IN  \A x \in 1..Len(p) :
                        Column(df, SmaName(w))[p[x]] =
                            IF x - 1 >= w - 1
                            THEN Rat(CloseSum(p, x - w + 1, x), w)
                            ELSE NaN

\* C2 witness: sma_2 over two tickers, one of them shorter than the window,
\* with a defined mean that is not a whole number.
C2_Witness ==
    /\ pc = "ready"
    /\ HasColumn(df, SmaName(2))
    /\ TickerCount(df.rows) = 2
    /\ \E t \in 1..Len(Tickers) : Len(SeriesAt(t)) = 1
    /\ \E i \in 1..Len(df.rows) :
           Column(df, SmaName(2))[i].k = "num" /\ Column(df, SmaName(2))[i].d = 2

\* C3 (as claimed): at every point whose rolling window is filled (index >= w),
\* if no close in the window fell, so that the average loss is zero, rsi_w
\* is exactly 0, whatever the average gain.
C3_ZeroLossGivesZero ==
    \A w \in 1..MaxWindow :
        (pc = "ready" /\ HasColumn(df, RsiName(w))) =>
            \A t \in 1..Len(Tickers) :
                LET p == SeriesAt(t)
                IN  \A x \in (w + 1)..Len(p) :
                        (\A y \in (x - w + 1)..x : ~Falls(p, y)) =>
                            Column(df, RsiName(w))[p[x]] = Num(0)

\* C4 (as claimed): rsi_w is undefined at the first w points of every ticker
\* (indices 0..w-1).
C4_FirstWindowPointsUndefined ==
    \A w \in 1..MaxWindow :
        (pc = "ready" /\ HasColumn(df, RsiName(w))) =>
            \A t \in 1..Len(Tickers) :
                LET p == SeriesAt(t)
                IN  \A x \in 1..Len(p) :
                        x - 1 <= w - 1 => Column(df, RsiName(w))[p[x]].k = "nan"

ApplyCall(f, c) ==
    CASE c.op = "sma" -> add_sma(f, c.w)
      [] c.op = "rsi" -> add_rsi(f, c.w)
      [] OTHER -> add_bollinger_bands(f, c.w, c.k)

RECURSIVE ApplyCalls(_, _)
ApplyCalls(f, cs) ==
    IF cs = <<>> THEN f ELSE ApplyCalls(ApplyCall(f, cs[1]), Tail(cs))

\* The fields a call writes.
Fields(c) ==
    CASE c.op = "sma" -> {SmaName(c.w)}
      [] c.op = "rsi" -> {RsiName(c.w)}
      [] OTHER -> {"bb_mid", "bb_upper", "bb_lower"}

SameCall(a, b) == a.op = b.op /\ a.w = b.w /\ a.k = b.k

\* The step is a call of apply_strategy_rsi_reversal that returns something new.
StrategyStep == signals' # signals

\* The step is an indicator call, recorded last in calls'.
IndicatorStep == pc = "ready" /\ Len(calls') = Len(calls) + 1

\* C6 (as claimed): the table get_result() returns is the same, fields and
\* values, after a call of apply_strategy_rsi_reversal as before it.
C6_StrategyNeverWrites == [][StrategyStep => get_result' = get_result]_vars

\* C6 (amended): apply_strategy_rsi_reversal leaves the table as it was when
\* it holds rsi_14; when it does not, the call appends the field rsi_14, with
\* the values of add_rsi(14), and changes no row and no other field.
C6_StrategyWritesOnlyMissingRsi ==
    [][StrategyStep =>
          IF HasColumn(df, "rsi_14")
          THEN get_result' = get_result
          ELSE /\ df'.rows = df.rows
               /\ df'.cols = Append(df.cols, "rsi_14")
               /\ \A j \in 1..Len(df.cols) : df'.vals[j] = df.vals[j]
               /\ df'.vals[Len(df'.cols)] = RsiColumn(df.rows, RSI_WINDOW)]_vars

\* C6 witness: the strategy computed rsi_14 itself, after another field, and
\* returned rows.
C6_Witness ==
    /\ signals.called
    /\ Len(signals.frame.rows) > 0
    /\ Len(df.cols) = 2
    /\ df.cols[2] = "rsi_14"
    /\ calls[Len(calls)].via = "strategy"

\* The table right after construction.
Fresh == [df EXCEPT !.cols = <<>>, !.vals = <<>>]

Perms(n) == {q \in [1..n -> 1..n] : \A i, j \in 1..n : q[i] = q[j] => i = j}

DistinctOps(cs) == \A i, j \in 1..Len(cs) : cs[i].op = cs[j].op => i = j

\* f and g hold the same fields with the same values in every row.
SameFields(f, g) ==
    /\ Len(f.cols) = Len(g.cols)
    /\ Range(f.cols) = Range(g.cols)
    /\ \A name \in Range(f.cols) : Column(f, name) = Column(g, name)

\* C7: for calls of different indicators, every order of the calls yields the
\* table's fields and values, and each indicator's fields are what that
\* indicator alone yields on the fresh table.
C7_IndicatorsCommute ==
    (pc = "ready" /\ DistinctOps(calls)) =>
        /\ \A q \in Perms(Len(calls)) :
               SameFields(ApplyCalls(Fresh, [i \in 1..Len(calls) |-> calls[q[i]]]),
                          df)
        /\ \A i \in 1..Len(calls) :
               LET g == ApplyCall(Fresh, calls[i])
               IN  \A name \in Range(g.cols) :
                       HasColumn(df, name) /\ Column(df, name) = Column(g, name)

\* C7 witness: all three indicators were applied, rsi before sma, and each
\* has a defined value.
C7_Witness ==
    /\ pc = "ready"
    /\ Len(calls) = 3
    /\ DistinctOps(calls)
    /\ \E i, j \in 1..3 : i < j /\ calls[i].op = "rsi" /\ calls[j].op = "sma"
    /\ \A c \in 1..Len(df.cols) : SomeDefined(df.vals[c])
    /\ TickerCount(df.rows) = 2

\* The call c was made before and nothing has written its fields since.
Repeats(cs, c) ==
    \E i \in 1..Len(cs) :
        /\ SameCall(cs[i], c)
        /\ \A j \in (i + 1)..Len(cs) : Fields(cs[j]) \cap Fields(c) = {}

\* C8: a call that repeats the indicator and parameters that last wrote its
\* fields leaves the table as it was: the same fields, in the same number, with
\* the same values.
C8_RepeatedCallChangesNothing ==
    [][(IndicatorStep /\ Repeats(calls, calls'[Len(calls')])) => df' = df]_vars

\* C8 witness: an indicator was called twice with the same parameters, another
\* indicator in between, and its field has defined values.
C8_Witness ==
    /\ pc = "ready"
    /\ Len(calls) = 3
    /\ SameCall(calls[1], calls[3])
    /\ calls[2].op # calls[1].op
    /\ Repeats(SubSeq(calls, 1, 2), calls[3])
    /\ \A c \in 1..Len(df.cols) : SomeDefined(df.vals[c])

\* C9: an indicator call changes no row, their order included, leaves the
\* caller's table alone, and keeps every field it does not write itself.
C9_CallsOnlyAddFields ==
    [][IndicatorStep =>
          /\ input' = input
          /\ df'.rows = df.rows
          /\ Len(df'.cols) >= Len(df.cols)
          /\ \A j \in 1..Len(df.cols) :
                 /\ df'.cols[j] = df.cols[j]
                 /\ df.cols[j] \notin Fields(calls'[Len(calls')]) =>
                        df'.vals[j] = df.vals[j]]_vars

\* C9 witness: three indicators were added to a table whose rows the
\* constructor reordered, and the fields hold undefined and defined values.
C9_Witness ==
    /\ pc = "ready"
    /\ Len(calls) = 3
    /\ Len(df.cols) = 5
    /\ df.rows # input
    /\ SomeUndefined(Column(df, SmaName(MaxWindow)))
    /\ \A c \in 1..Len(df.cols) : SomeDefined(df.vals[c])

\* C10: the indicator values of a ticker's points are those the same calls
\* yield on a table that holds that ticker's series alone, so they depend on
\* no row of another ticker and on no order of the input rows.
C10_NoCrossTickerLeak ==
    pc = "ready" =>
        \A t \in 1..Len(Tickers) :
            LET p == SeriesAt(t)
                alone == [rows |-> [j \in 1..Len(p) |-> df.rows[p[j]]],
                          cols |-> <<>>, vals |-> <<>>]
                ref == ApplyCalls(alone, calls)
            IN  Len(p) > 0 =>
                    /\ ref.cols = df.cols
                    /\ \A c \in 1..Len(df.cols) :
                           \A j \in 1..Len(p) : df.vals[c][p[j]] = ref.vals[c][j]

\* C10 witness: an indicator with defined values on a table of two tickers
\* whose rows came interleaved.
C10_Witness ==
    /\ pc = "ready"
    /\ Len(calls) = 1
    /\ TickerCount(df.rows) = 2
    /\ df.rows # input
    /\ \E i \in 1..(Len(input) - 2) :
           /\ input[i].ticker = input[i + 2].ticker
           /\ input[i].ticker # input[i + 1].ticker
    /\ \E c \in 1..Len(df.cols) : SomeDefined(df.vals[c])

\* C11 (as claimed): in every table construction accepts, the dates of each
\* ticker's rows are strictly increasing, so no two rows of a ticker share a
\* date, whatever non-empty input was passed.
C11_DatesStrictlyIncrease ==
    pc = "ready" =>
        \A t \in 1..Len(Tickers) :
            LET p == SeriesAt(t)
            IN  \A x \in 1..(Len(p) - 1) :
                    df.rows[p[x]].date < df.rows[p[x + 1]].date

\* The value is a number in the closed range lo..hi.
InRange(v, lo, hi) ==
    v.k = "num" /\ v.rn = 0 /\ lo * v.d <= v.n /\ v.n <= hi * v.d

\* C12: every defined value of a field rsi_w, of every ticker and whatever the
\* closes did, lies in the closed range 0..100.
C12_RsiWithinBounds ==
    \A w \in (1..MaxWindow) \cup {RSI_WINDOW} :
        (pc = "ready" /\ HasColumn(df, RsiName(w))) =>
            \A i \in 1..Len(df.rows) :
                LET v == Column(df, RsiName(w))[i]
                IN  v.k # "nan" => InRange(v, 0, 100)

\* C12 witness: one rsi field that holds a value strictly between 0 and 100
\* (closes that rose and fell), the value 0 and an undefined value at a point
\* whose window is filled (closes that stayed flat).
C12_Witness ==
    \E w \in 1..MaxWindow :
        /\ pc = "ready"
        /\ HasColumn(df, RsiName(w))
        /\ \E i \in 1..Len(df.rows) :
               LET v == Column(df, RsiName(w))[i]
               IN  InRange(v, 0, 100) /\ v.n > 0 /\ v.n < 100 * v.d
        /\ \E i \in 1..Len(df.rows) : Column(df, RsiName(w))[i] = Num(0)
        /\ \E t \in 1..Len(Tickers) :
               LET p == SeriesAt(t)
               IN  Len(p) > w /\ Column(df, RsiName(w))[p[Len(p)]].k = "nan"

\* C13 (as claimed): daily_analysis holds at most one row per ticker and
\* calendar day of created_at, whatever save_analysis calls ran and however
\* the query and commit steps of calls in separate sessions interleaved.
C13_OneRecordPerTickerAndDay ==
    \A i, j \in 1..Len(records) :
        (records[i].ticker = records[j].ticker /\ records[i].day = records[j].day)
            => i = j

\* The number of iterations that met a quota limit.
QuotaCount(os) == Cardinality({i \in 1..Len(os) : os[i].kind = "quota"})

\* What holds of a call of analyze_news at every moment and once it returned.
C14_Returns ==
    /\ modelCalls <= MAX_ATTEMPTS
    /\ agentAt = "returned" =>
           IF news = <<>>
           THEN modelCalls = 0 /\ result = NoNews
           ELSE LET n == Len(outcomes)
                IN  /\ modelCalls = (IF hasModel THEN n ELSE 0)
                    /\ waits = QuotaCount(outcomes)
                    /\ \A i \in 1..(n - 1) : outcomes[i].kind \in {"quota", "empty"}
                    /\ (n = 0 \/ outcomes[n].kind \in {"quota", "empty"})
                           => n = MAX_ATTEMPTS
                    /\ result = IF n > 0 /\ outcomes[n].kind = "text"
                                THEN parse_response(outcomes[n].text)
                                ELSE GeminiError

\* C14: GeminiAgent.analyze_news returns, and after at most 3 calls of the
\* model.  Without news it calls no model and returns the NEUTRAL result.
\* With news it returns the parsed text of the first call that gave one; a
\* "429" exception makes it wait and go on to the next attempt, any other
\* exception ends the attempts at once, and when no attempt gave a text it
\* returns the fixed ERROR result with score 0.
C14_AnalyzeNewsReturnsWithinThreeCalls ==
    [](C14_Returns) /\ <>(agentAt = "returned")

\* C14 witness: a quota limit, then an empty text, then a text that is parsed
\* into a result other than the default.
C14_Witness ==
    /\ agentAt = "returned"
    /\ Len(outcomes) = MAX_ATTEMPTS
    /\ outcomes[1].kind = "quota"
    /\ outcomes[2].kind = "empty"
    /\ outcomes[3].kind = "text"
    /\ waits = 1
    /\ modelCalls = MAX_ATTEMPTS
    /\ result.sentiment = "BULLISH"
    /\ result.score = Rat(4, 5)

\* The positions, in table order, of the rows of df that are signals of the
\* threshold main() passes and carry the latest date of the fetched table.
LatestHits ==
    LET rsi == Column(df, "rsi_14")
    IN  SelectSeq([i \in 1..Len(df.rows) |-> i],
            LAMBDA i : /\ rsi[i].k = "num"
                       /\ rsi[i].n < MAIN_THRESHOLD * rsi[i].d
                       /\ \A j \in 1..Len(input) : input[j].date <= df.rows[i].date)

\* One search and then one analysis for each of the rows at positions hits.
SearchedAndAnalyzed(hits) ==
    /\ Len(events) = 2 * Len(hits)
    /\ \A j \in 1..Len(hits) :
           /\ events[2 * j - 1] = [op |-> "search", ticker |-> df.rows[hits[j]].ticker]
           /\ events[2 * j] = [op |-> "analyze", ticker |-> df.rows[hits[j]].ticker]

PairOf(op) == Len(calls) = 2 /\ calls[1].op = op /\ calls[2].op = op

\* C16: the Bollinger fields are named without the window and num_std: after
\* two add_bollinger_bands calls the table holds one bb_mid, bb_upper and
\* bb_lower, with the values of the last call alone, whereas two add_sma
\* calls, or two add_rsi calls, with different windows keep both results in
\* the fields sma_w, or rsi_w, of their windows; and wherever the bands are
\* defined, bb_mid is the value add_sma yields for the last call's window,
\* the mean of the ticker's last w closes.
C16_BollingerFieldsAreShared ==
    pc = "ready" =>
        /\ PairOf("bb") =>
               /\ df.cols = <<"bb_mid", "bb_upper", "bb_lower">>
               /\ df = add_bollinger_bands(Fresh, calls[2].w, calls[2].k)
        /\ (PairOf("sma") /\ calls[1].w # calls[2].w) =>
               /\ df.cols = <<SmaName(calls[1].w), SmaName(calls[2].w)>>
               /\ df.cols[1] # df.cols[2]
               /\ \A c \in 1..2 : df.vals[c] = SmaColumn(df.rows, calls[c].w)
        /\ (PairOf("rsi") /\ calls[1].w # calls[2].w) =>
               /\ df.cols = <<RsiName(calls[1].w), RsiName(calls[2].w)>>
               /\ df.cols[1] # df.cols[2]
               /\ \A c \in 1..2 : df.vals[c] = RsiColumn(df.rows, calls[c].w)
        /\ (calls # <<>> /\ calls[Len(calls)].op = "bb") =>
               LET w == calls[Len(calls)].w
                   sma == Column(add_sma(Fresh, w), SmaName(w))
               IN  \A t \in 1..Len(Tickers) :
                       LET p == SeriesAt(t)
                       IN  \A x \in 1..Len(p) :
                               (/\ Column(df, "bb_upper")[p[x]].k = "num"
                                /\ Column(df, "bb_lower")[p[x]].k = "num") =>
                                   /\ Column(df, "bb_mid")[p[x]] = sma[p[x]]
                                   /\ Column(df, "bb_mid")[p[x]] =
                                          Rat(CloseSum(p, x - w + 1, x), w)

\* C16 witness: two add_bollinger_bands calls that differ in window and
\* num_std, after which the bands are defined, wider than the mean, and not
\* what the first call had left.
C16_Witness ==
    /\ pc = "ready"
    /\ PairOf("bb")
    /\ calls[1].w # calls[2].w
    /\ calls[1].k # calls[2].k
    /\ df # add_bollinger_bands(Fresh, calls[1].w, calls[1].k)
    /\ \E i \in 1..Len(df.rows) :
           /\ Column(df, "bb_upper")[i].k = "num"
           /\ Column(df, "bb_upper")[i] # Column(df, "bb_mid")[i]
    /\ TickerCount(df.rows) = 2
====
